---------------------------- MODULE Spec2Model ----------------------------
(***************************************************************************)
(* JAKE turn orchestration: the stage graph of JAKEOrchestrator            *)
(* (src/src/agents/jake_orchestrator.py), the stages it calls              *)
(* (jake_chatter, jake_checker, jake_dynamic_profiler, jake_summarizer)    *)
(* and the chat endpoint that persists a turn (src/src/main.py).           *)
(*                                                                         *)
(* Text is a tuple of one-character strings, so that lower-casing,         *)
(* stripping, substring search and concatenation are computed, not        *)
(* assumed.  A Python dict is a record, the empty dict {} is <<>>.         *)
(* The completion capability is the environment: every call either fails  *)
(* or returns one value of a bounded set of outputs, well-shaped or not.   *)
(***************************************************************************)
EXTENDS Integers, Sequences, FiniteSets, TLC

VARIABLES
    pc,             \* position in the stage graph / the chat handler
    state,          \* ConversationState threaded through the graph
    result,         \* what process_message returned (NoResult until it does)
    trace,          \* graph nodes entered, in order
    calls,          \* completion-capability calls made, in order, with arguments
    received,       \* the history each stage method was called with, in order
    call,           \* arguments of a direct call of one stage method
    ret,            \* what that direct call returned
    characters,     \* table characters: id -> row
    conversations,  \* table conversations: sequence of rows, id = position
    messages,       \* table messages: sequence of rows in timestamp order
    quests,         \* table quests: id -> row
    memories,       \* table memories: sequence of rows, id = position
    vector_store,   \* ids held by the vector store
    req,            \* the chat request being handled and its ORM session
    chats,          \* number of chat requests received so far
    other           \* a second handler of the chat endpoint, running beside the first

vars == <<pc, state, result, trace, calls, received, call, ret, characters, conversations,
          messages, quests, memories, vector_store, req, chats, other>>

orch_vars == <<pc, state, result, trace, calls, received>>
unit_vars == <<call, ret>>
db_vars == <<characters, conversations, messages, quests, memories, vector_store,
             req, chats, other>>

-----------------------------------------------------------------------------
(* Bounds of the model *)

\* longest history handed to process_message directly (23 -> turn_count 11)
MaxHist == 23
\* longest history handed to check_quests directly (shorter, equal, longer than 6)
MaxCheckHist == 8
\* turns already stored in the conversation when the endpoint is first observed
MaxTurns == 10
\* chat requests the endpoint then receives in one behaviour
MaxChats == 2
\* longest addendum a direct call of update_profile is fed back
MaxAddendumLen == 40

(* Policy constants of the router *)
SummarizeOnlyBelow == 3
FullProcessFrom == 10
\* JAKEDynamicProfiler._dynamic_profile passes num_turns=3
NumTurns == 3
\* Conversation.affection_score default
DefaultAffection == 50

-----------------------------------------------------------------------------
(* Python built-ins *)

Min(a, b) == IF a <= b THEN a ELSE b
Max(a, b) == IF a >= b THEN a ELSE b

\* d.get(key, default) on a dict d
Get(d, key, default) == IF key \in DOMAIN d THEN d[key] ELSE default

\* lst[-n:]
LastN(lst, n) == IF Len(lst) <= n THEN lst ELSE SubSeq(lst, Len(lst) - n + 1, Len(lst))

UpperCase == <<"A","B","C","D","E","F","G","H","I","J","K","L","M",
               "N","O","P","Q","R","S","T","U","V","W","X","Y","Z">>
LowerCase == <<"a","b","c","d","e","f","g","h","i","j","k","l","m",
               "n","o","p","q","r","s","t","u","v","w","x","y","z">>

LowerChar(c) ==
    IF \E i \in 1..Len(UpperCase) : UpperCase[i] = c
    THEN LowerCase[CHOOSE i \in 1..Len(UpperCase) : UpperCase[i] = c]
    ELSE c

\* str.lower()
Lower(s) == [i \in 1..Len(s) |-> LowerChar(s[i])]

\* sub in s
Contains(sub, s) ==
    \E i \in 0..(Len(s) - Len(sub)) : SubSeq(s, i + 1, i + Len(sub)) = sub

Whitespace == {" ", "\n", "\t"}

\* str.strip()
Strip(s) ==
    IF \A i \in 1..Len(s) : s[i] \in Whitespace
    THEN <<>>
    ELSE LET first == CHOOSE i \in 1..Len(s) :
                         /\ s[i] \notin Whitespace
                         /\ \A j \in 1..(i - 1) : s[j] \in Whitespace
             last  == CHOOSE i \in 1..Len(s) :
                         /\ s[i] \notin Whitespace
                         /\ \A j \in (i + 1)..Len(s) : s[j] \in Whitespace
         IN  SubSeq(s, first, last)

\* a is a prefix of b
IsPrefix(a, b) == Len(a) <= Len(b) /\ SubSeq(b, 1, Len(a)) = a

\* Python truthiness of a str, list or dict
Truthy(v) == v # <<>>


-----------------------------------------------------------------------------
(* JSON values whose shape nothing validates carry their Python type *)

JList(items) == [kind |-> "list", val |-> items]
JStr(text) == [kind |-> "str", val |-> text]
JDict(fields) == [kind |-> "dict", val |-> fields]

\* the five categories of MemoryFacts
MemoryCategories == {"facts", "emotions", "key_events", "user_info", "character_revelations"}

\* the literal returned by get_memory for a history shorter than one turn
EmptyMemories ==
    JDict([facts |-> JList(<<>>), emotions |-> JList(<<>>), key_events |-> JList(<<>>),
           user_info |-> JList(<<>>), character_revelations |-> JList(<<>>)])

-----------------------------------------------------------------------------
(* JAKEChatter *)

ChatResponseFields ==
    {"dialogue", "action", "situation", "background", "affection_score",
     "affection_change", "internal_thought"}

\* the structured output accepted without validation against the schema
ChatResponse_unvalidated(raw) == TRUE

\* ChatResponse(BaseModel): every field is required; the two integers carry a
\* description only, no ge/le constraint
ChatResponse(raw) == ChatResponseFields \subseteq DOMAIN raw

\* the history loop of JAKEChatter._chat: entries with a role and content, by role
chat_format_history(history) ==
    LET keep(turn) == /\ turn.role # "" /\ turn.content # ""
                      /\ turn.role \in {"user", "assistant"}
    IN  SelectSeq(history, keep)

\* the request JAKEChatter._chat sends to the completion capability
chat_request(query, character, history, current_affection) ==
    [op |-> "chat",
     query |-> query,
     history |-> chat_format_history(history),
     current_affection |-> current_affection,
     dynamic_profile |-> Get(character, "dynamic_profile", <<>>)]

-----------------------------------------------------------------------------
(* JAKEChecker *)

RoleUpper(role) ==
    CASE role = "user" -> "USER"
      [] role = "assistant" -> "ASSISTANT"
      [] OTHER -> role

\* the first six messages taken instead of the last six
checker_format_history_oldest(history) ==
    LET recent == SubSeq(history, 1, Min(6, Len(history)))
    IN  [i \in 1..Len(recent) |->
            [role |-> RoleUpper(recent[i].role), content |-> recent[i].content]]

\* JAKEChecker._format_history: history[-6:], one "ROLE: content" line each
checker_format_history(history) ==
    LET recent == LastN(history, 6)
    IN  [i \in 1..Len(recent) |->
            [role |-> RoleUpper(recent[i].role), content |-> recent[i].content]]

\* the request of JAKEChecker._check_quest
check_quest_request(history, dict_quest) ==
    [op |-> "check_quest",
     history |-> checker_format_history(history),
     quest_json |-> dict_quest]

\* the request of JAKEChecker._check_advancement_quest
check_advancement_quest_request(history, dict_quest, current_affection, relationship_stage) ==
    [op |-> "check_advancement_quest",
     history |-> checker_format_history(history),
     quest_json |-> dict_quest,
     affection |-> current_affection,
     stage |-> relationship_stage]

\* JAKEChecker.check_quests, given what the two completions returned
check_quests(updated_regular, updated_advancement) ==
    [regular_quests |-> updated_regular, advancement_quests |-> updated_advancement]

-----------------------------------------------------------------------------
(* JAKEDynamicProfiler *)

NoUpdatesMarker ==
    <<"n","o"," ","s","i","g","n","i","f","i","c","a","n","t"," ",
      "u","p","d","a","t","e","s">>

\* "\n\n=== Recent Updates ===\n"
RecentUpdatesHeading ==
    <<"\n","\n","=","=","="," ","R","e","c","e","n","t"," ",
      "U","p","d","a","t","e","s"," ","=","=","=","\n">>

\* JAKEDynamicProfiler._format_history(history, num_turns)
profiler_format_history(history, num_turns) ==
    LET recent == LastN(history, num_turns * 2)
    IN  [i \in 1..Len(recent) |->
            [role |-> RoleUpper(recent[i].role), content |-> recent[i].content]]

\* the quest context dropped from the request
dynamic_profile_request_no_quests(history, character_details, quest_context) ==
    [op |-> "dynamic_profile",
     history |-> profiler_format_history(history, NumTurns),
     original_profile |-> character_details,
     quest_info |-> <<>>]

\* the request of JAKEDynamicProfiler._dynamic_profile
dynamic_profile_request(history, character_details, quest_context) ==
    [op |-> "dynamic_profile",
     history |-> profiler_format_history(history, NumTurns),
     original_profile |-> character_details,
     quest_info |-> IF Truthy(quest_context) THEN quest_context ELSE <<>>]

\* the marker looked for without lower-casing the completion
dynamic_profile_case_sensitive(completion) ==
    IF Contains(NoUpdatesMarker, completion)
    THEN <<>>
    ELSE Strip(completion)

\* what _dynamic_profile makes of the completion's text
dynamic_profile(completion) ==
    IF Contains(NoUpdatesMarker, Lower(completion))
    THEN <<>>
    ELSE Strip(completion)

\* the addendum rewritten: the new additions replace what was recorded
update_profile_rewrite(character, completion) ==
    LET existing_dynamic == Get(character, "dynamic_profile", <<>>)
        new_additions == dynamic_profile(completion)
    IN  IF ~Truthy(new_additions) THEN existing_dynamic ELSE new_additions

\* JAKEDynamicProfiler.update_profile, given the completion's text
update_profile(character, completion) ==
    LET existing_dynamic == Get(character, "dynamic_profile", <<>>)
        new_additions == dynamic_profile(completion)
    IN  IF ~Truthy(new_additions)
        THEN existing_dynamic
        ELSE IF Truthy(existing_dynamic)
             THEN existing_dynamic \o RecentUpdatesHeading \o new_additions
             ELSE new_additions

-----------------------------------------------------------------------------
(* JAKESummarizer *)

\* the oldest pair of the history sent instead of the newest
get_memory_request_oldest(history, character_name) ==
    [op |-> "get_memory",
     character_name |-> character_name,
     user |-> history[1].content,
     assistant |-> history[2].content]

\* the request of JAKESummarizer.get_memory: the last user-assistant pair
get_memory_request(history, character_name) ==
    [op |-> "get_memory",
     character_name |-> character_name,
     user |-> history[Len(history) - 1].content,
     assistant |-> history[Len(history)].content]

\* the short-circuit removed: an empty pair is sent to the completion capability
get_memory_no_short_circuit(history, character_name, completion) ==
    IF Len(history) < 2
    THEN [requests |-> <<[op |-> "get_memory", character_name |-> character_name,
                          user |-> "", assistant |-> ""]>>,
          value |-> completion]
    ELSE [requests |-> <<get_memory_request(history, character_name)>>,
          value |-> completion]

\* JAKESummarizer.get_memory: the requests it sends to the completion capability
\* and, given what the completion returned, its return value
get_memory(history, character_name, completion) ==
    IF Len(history) < 2
    THEN [requests |-> <<>>, value |-> EmptyMemories]
    ELSE [requests |-> <<get_memory_request(history, character_name)>>,
          value |-> completion]

-----------------------------------------------------------------------------
(* What the completion capability may return *)

ChatOutput(dialogue, score, change) ==
    [dialogue |-> dialogue, action |-> "smiles", situation |-> "cafe",
     background |-> "evening", affection_score |-> score,
     affection_change |-> change, internal_thought |-> "hm"]

\* structured replies; the last one lacks the required affection_score
ChatOutputs ==
    { ChatOutput("d1", 42, 3), ChatOutput("d2", 137, 3), ChatOutput("d1", 0 - 7, 0 - 12),
      ChatOutput("d1", 100, 15),
      [dialogue |-> "d1", action |-> "smiles", situation |-> "cafe",
       background |-> "evening", affection_change |-> 3, internal_thought |-> "hm"] }

\* the quests table of two characters: the first has a regular and an
\* advancement quest, the second a regular quest
TwoCharacterQuests ==
    << [character_id |-> 1, quest_type |-> "regular", title |-> "t",
        description |-> "d", required_affection |-> 0, cleared |-> 0,
        cleared_at |-> 0],
       [character_id |-> 1, quest_type |-> "advancement", title |-> "t",
        description |-> "d", required_affection |-> 60, cleared |-> 0,
        cleared_at |-> 0],
       [character_id |-> 2, quest_type |-> "regular", title |-> "t",
        description |-> "d", required_affection |-> 0, cleared |-> 0,
        cleared_at |-> 0] >>

\* a quest id a check was not given: in that table, the last quest's
StrayQuestId == Len(TwoCharacterQuests)

\* JSON a quest check may return for the collection it was given: the same
\* quests with any cleared flags, no quests at all, or the first quest under
\* an id that was not in the collection, cleared
QuestOutputs(dict_quest) ==
    LET qs == dict_quest.quests
    IN  { [quests |-> [i \in 1..Len(qs) |-> [qs[i] EXCEPT !.cleared = f[i]]]] :
            f \in [1..Len(qs) -> {0, 1}] }
        \cup { [quests |-> <<>>] }
        \cup { [quests |-> << [qs[i] EXCEPT !.id = <<@[1], StrayQuestId>>, !.cleared = 1] >>] :
                 i \in { j \in 1..Min(1, Len(qs)) : \A k \in 1..Len(qs) : qs[k].id[2] # StrayQuestId } }

\* text the profile completion may return
ProfileOutputs ==
    { <<"N","o"," ","s","i","g","n","i","f","i","c","a","n","t"," ",
        "u","p","d","a","t","e","s">>,
      <<"N","O"," ","S","I","G","N","I","F","I","C","A","N","T"," ",
        "U","P","D","A","T","E","S",".">>,
      <<"-"," ","t","e","a","\n","n","o"," ","s","i","g","n","i","f","i","c","a","n","t"," ",
        "u","p","d","a","t","e","s">>,
      <<"-"," ","t","e","a">>,
      <<" ","c","a","t"," ","\n">>,
      <<" ","\n">>,
      <<>> }

MemoryBundle(facts, user_info) ==
    JDict([facts |-> JList(facts), emotions |-> JList(<<>>), key_events |-> JList(<<>>),
           user_info |-> JList(user_info), character_revelations |-> JList(<<>>)])

\* JSON the memory completion may return: JsonOutputParser accepts any JSON value,
\* here two bundles, {"facts": "f1"} and []
MemoryOutputs ==
    { MemoryBundle(<<>>, <<>>),
      MemoryBundle(<<"f1">>, <<>>),
      JDict([facts |-> JStr(<<"f", "1">>)]),
      JList(<<>>) }

-----------------------------------------------------------------------------
(* JAKEOrchestrator: the stage graph *)

NoResult == <<>>
\* a parameter left at its default None
None == <<>>

GraphNodes == {"chat", "check_quests", "update_profile", "summarize"}

\* the new pair appended in the wrong order: reply first
updated_history_reply_first(st) ==
    st.history \o << [role |-> "assistant", content |-> st.response.dialogue],
                     [role |-> "user", content |-> st.user_message] >>

\* the history each node after chat builds: state["history"] + [user, assistant]
updated_history(st) ==
    st.history \o << [role |-> "user", content |-> st.user_message],
                     [role |-> "assistant", content |-> st.response.dialogue] >>

route_after_chat(st) ==
    IF st.turn_count < SummarizeOnlyBelow THEN "summarize_only"
    ELSE IF st.turn_count < FullProcessFrom THEN "check_and_summarize"
    ELSE "full_process"

\* the first threshold used where the second belongs
route_after_quest_check_low(st) ==
    IF st.turn_count >= SummarizeOnlyBelow THEN "update_profile" ELSE "summarize"

route_after_quest_check(st) ==
    IF st.turn_count >= FullProcessFrom THEN "update_profile" ELSE "summarize"

\* full_process wired to the profile node, skipping the quest check
edge_after_chat_skip(label) ==
    CASE label = "summarize_only" -> "summarize"
      [] label = "check_and_summarize" -> "check_quests"
      [] label = "full_process" -> "update_profile"

\* the shortest route wired back to the chat node
edge_after_chat_back(label) ==
    CASE label = "summarize_only" -> "chat"
      [] label = "check_and_summarize" -> "check_quests"
      [] label = "full_process" -> "check_quests"

\* the edges _build_graph adds
edge_after_chat(label) ==
    CASE label = "summarize_only" -> "summarize"
      [] label = "check_and_summarize" -> "check_quests"
      [] label = "full_process" -> "check_quests"

\* the quest check entered again instead of going on to summarize
edge_after_quest_check_again(label) ==
    CASE label = "update_profile" -> "update_profile"
      [] label = "summarize" -> "check_quests"

edge_after_quest_check(label) ==
    CASE label = "update_profile" -> "update_profile"
      [] label = "summarize" -> "summarize"

\* the affection computed by applying the reply's affection_change
new_affection_by_change(st, response) ==
    Min(100, Max(0, st.current_affection + Get(response, "affection_change", 0)))

\* the lower clamp forgotten
new_affection_no_floor(st, response) ==
    Min(100, Get(response, "affection_score", st.current_affection))

\* the affection _chat_node stores
new_affection(st, response) ==
    Min(100, Max(0, Get(response, "affection_score", st.current_affection)))

\* initial_state of process_message
initial_state(user_message, character, history, regular_quests, advancement_quests, current_affection, relationship_stage) ==
    [user_message |-> user_message,
     character |-> character,
     history |-> history,
     regular_quests |-> IF Truthy(regular_quests) THEN regular_quests ELSE [quests |-> <<>>],
     advancement_quests |-> IF Truthy(advancement_quests) THEN advancement_quests
                            ELSE [quests |-> <<>>],
     current_affection |-> current_affection,
     relationship_stage |-> relationship_stage,
     turn_count |-> Len(history) \div 2,
     response |-> <<>>,
     updated_quests |-> <<>>,
     updated_dynamic_profile |-> <<>>,
     memories |-> JDict(<<>>),
     updated_affection |-> current_affection]

\* the dict process_message returns
turn_result(st) ==
    [response |-> st.response,
     updated_affection |-> st.updated_affection,
     updated_quests |-> Get(st, "updated_quests", None),
     updated_dynamic_profile |-> Get(st, "updated_dynamic_profile", None),
     memories |-> Get(st, "memories", JDict(<<>>))]

\* a stage method called with its history argument
Received(stage, history) == [stage |-> stage, history |-> history]

\* one entry of the call log: the request and whether the call raised
Returned(request) == [request |-> request, raised |-> FALSE]
Raised(request) == [request |-> request, raised |-> TRUE]
\* the call raised because its output failed validation against the schema
Malformed(request) == [request |-> request, raised |-> TRUE, error |-> "ValidationError"]

\* the exception swallowed: the graph ends and the state so far is returned
Raise_swallowed ==
    /\ pc' = "END"
    /\ UNCHANGED <<state, result>>

\* a node raised: graph.invoke and process_message raise with it
Raise ==
    /\ pc' = "failed"
    /\ UNCHANGED <<state, result>>

chat_node ==
    /\ pc = "chat"
    /\ trace' = Append(trace, "chat")
    /\ received' = Append(received, Received("chat", state.history))
    /\ LET request == chat_request(state.user_message, state.character,
                                   state.history, state.current_affection)
       IN  \/ /\ calls' = Append(calls, Raised(request))
              /\ Raise
           \/ \E raw \in ChatOutputs :
                IF ChatResponse(raw)
                THEN LET st == [state EXCEPT !.response = raw,
                                   !.updated_affection = new_affection(state, raw)]
                     IN  /\ calls' = Append(calls, Returned(request))
                         /\ state' = st
                         /\ pc' = edge_after_chat(route_after_chat(st))
                         /\ UNCHANGED result
                ELSE /\ calls' = Append(calls, Malformed(request))
                     /\ Raise
    /\ UNCHANGED <<unit_vars, db_vars>>

\* the milestone check handed the affection the turn started with
check_quests_node_pre_turn ==
    /\ pc = "check_quests"
    /\ trace' = Append(trace, "check_quests")
    /\ received' = Append(received, Received("check_quests", updated_history(state)))
    /\ LET history == updated_history(state)
           regular == check_quest_request(history, state.regular_quests)
           advancement == check_advancement_quest_request(history, state.advancement_quests,
                              state.current_affection, state.relationship_stage)
       IN  \/ /\ calls' = Append(calls, Raised(regular))
              /\ Raise
           \/ /\ calls' = calls \o <<Returned(regular), Raised(advancement)>>
              /\ Raise
           \/ /\ calls' = calls \o <<Returned(regular), Returned(advancement)>>
              /\ \E updated_regular \in QuestOutputs(state.regular_quests),
                    updated_advancement \in QuestOutputs(state.advancement_quests) :
                    LET st == [state EXCEPT !.updated_quests =
                                  check_quests(updated_regular, updated_advancement)]
                    IN  /\ state' = st
                        /\ pc' = edge_after_quest_check(route_after_quest_check(st))
                        /\ UNCHANGED result
    /\ UNCHANGED <<unit_vars, db_vars>>

check_quests_node ==
    /\ pc = "check_quests"
    /\ trace' = Append(trace, "check_quests")
    /\ received' = Append(received, Received("check_quests", updated_history(state)))
    /\ LET history == updated_history(state)
           regular == check_quest_request(history, state.regular_quests)
           advancement == check_advancement_quest_request(history, state.advancement_quests,
                              state.updated_affection, state.relationship_stage)
       IN  \/ /\ calls' = Append(calls, Raised(regular))
              /\ Raise
           \/ /\ calls' = calls \o <<Returned(regular), Raised(advancement)>>
              /\ Raise
           \/ /\ calls' = calls \o <<Returned(regular), Returned(advancement)>>
              /\ \E updated_regular \in QuestOutputs(state.regular_quests),
                    updated_advancement \in QuestOutputs(state.advancement_quests) :
                    LET st == [state EXCEPT !.updated_quests =
                                  check_quests(updated_regular, updated_advancement)]
                    IN  /\ state' = st
                        /\ pc' = edge_after_quest_check(route_after_quest_check(st))
                        /\ UNCHANGED result
    /\ UNCHANGED <<unit_vars, db_vars>>

update_profile_node ==
    /\ pc = "update_profile"
    /\ trace' = Append(trace, "update_profile")
    /\ received' = Append(received, Received("update_profile", updated_history(state)))
    /\ LET request == dynamic_profile_request(updated_history(state),
                          Get(state.character, "details", <<>>),
                          Get(state, "updated_quests", None))
       IN  \/ /\ calls' = Append(calls, Raised(request))
              /\ Raise
           \/ /\ calls' = Append(calls, Returned(request))
              /\ \E completion \in ProfileOutputs :
                    /\ state' = [state EXCEPT !.updated_dynamic_profile =
                                    update_profile(state.character, completion)]
                    /\ pc' = "summarize"
                    /\ UNCHANGED result
    /\ UNCHANGED <<unit_vars, db_vars>>

\* the new pair appended to state["history"] in place (+= instead of +)
summarize_node_in_place ==
    /\ pc = "summarize"
    /\ trace' = Append(trace, "summarize")
    /\ received' = Append(received, Received("summarize", updated_history(state)))
    /\ \E completion \in MemoryOutputs :
          LET got == get_memory(updated_history(state), state.character.basics.name,
                                completion)
          IN  \/ /\ got.requests # <<>>
                 /\ calls' = calls \o <<Raised(got.requests[1])>>
                 /\ pc' = "failed"
                 /\ state' = [state EXCEPT !.history = updated_history(state)]
                 /\ UNCHANGED result
              \/ /\ calls' = calls \o [i \in 1..Len(got.requests) |-> Returned(got.requests[i])]
                 /\ state' = [state EXCEPT !.memories = got.value,
                                           !.history = updated_history(state)]
                 /\ pc' = "END"
                 /\ UNCHANGED result
    /\ UNCHANGED <<unit_vars, db_vars>>

\* the memory stage handed the caller's history, without the new pair
summarize_node_caller_history ==
    /\ pc = "summarize"
    /\ trace' = Append(trace, "summarize")
    /\ received' = Append(received, Received("summarize", state.history))
    /\ \E completion \in MemoryOutputs :
          LET got == get_memory(state.history, state.character.basics.name, completion)
          IN  \/ /\ got.requests # <<>>
                 /\ calls' = calls \o <<Raised(got.requests[1])>>
                 /\ Raise
              \/ /\ calls' = calls \o [i \in 1..Len(got.requests) |-> Returned(got.requests[i])]
                 /\ state' = [state EXCEPT !.memories = got.value]
                 /\ pc' = "END"
                 /\ UNCHANGED result
    /\ UNCHANGED <<unit_vars, db_vars>>

summarize_node ==
    /\ pc = "summarize"
    /\ trace' = Append(trace, "summarize")
    /\ received' = Append(received, Received("summarize", updated_history(state)))
    /\ \E completion \in MemoryOutputs :
          LET got == get_memory(updated_history(state), state.character.basics.name,
                                completion)
          IN  \/ /\ got.requests # <<>>
                 /\ calls' = calls \o <<Raised(got.requests[1])>>
                 /\ Raise
              \/ /\ calls' = calls \o [i \in 1..Len(got.requests) |-> Returned(got.requests[i])]
                 /\ state' = [state EXCEPT !.memories = got.value]
                 /\ pc' = "END"
                 /\ UNCHANGED result
    /\ UNCHANGED <<unit_vars, db_vars>>

\* graph.invoke returned: process_message builds its return value
process_message_return ==
    /\ pc = "END"
    /\ result' = turn_result(state)
    /\ pc' = "done"
    /\ UNCHANGED <<state, trace, calls, received>>
    /\ UNCHANGED <<unit_vars, db_vars>>

-----------------------------------------------------------------------------
(* Inputs of a direct call of process_message *)

\* n messages, alternating user and assistant, each with its own content
History(n) ==
    [i \in 1..n |-> [role |-> IF i % 2 = 1 THEN "user" ELSE "assistant",
                     content |-> "h" \o ToString(i)]]

\* the id strings main.py builds: f"quest_{q.id}" and f"adv_{q.id}"
QuestIdStr(prefix, id) == <<prefix, id>>

RegularQuestJson(id, cleared) ==
    [id |-> QuestIdStr("quest_", id), title |-> "t", description |-> "d", cleared |-> cleared]

AdvancementQuestJson(id, required_affection, cleared) ==
    [id |-> QuestIdStr("adv_", id), title |-> "t", description |-> "d",
     required_affection |-> required_affection, cleared |-> cleared]

CharacterDict(name, dynamic) ==
    [basics |-> [name |-> name, age |-> "25", occupation |-> "Cafe owner"],
     worldview |-> "w",
     details |-> [personality |-> "warm"],
     dynamic_profile |-> dynamic]

Addenda == { <<>>, <<"o","l","d">> }
AffectionInputs == {50, 65}
\* the quest collections: left out, or one routine and one milestone quest of
\* which one is already cleared
QuestInputs ==
    { <<None, None>> } \cup
    { << [quests |-> <<RegularQuestJson(1, r)>>],
         [quests |-> <<AdvancementQuestJson(2, 60, 1 - r)>>] >> : r \in {0, 1} }

InitUnit ==
    /\ call = <<>>
    /\ ret = <<>>

\* no chat request is served: the tables play no part
InitDb ==
    /\ characters = <<>>
    /\ conversations = <<>>
    /\ messages = <<>>
    /\ quests = <<>>
    /\ memories = <<>>
    /\ vector_store = {}
    /\ req = <<>>
    /\ chats = 0
    /\ other = <<>>

\* process_message called on any history of at most MaxHist messages
InitPM ==
    /\ \E n \in 0..MaxHist, dynamic \in Addenda, affection \in AffectionInputs,
          qs \in QuestInputs :
          state = initial_state("hello", CharacterDict("Luna", dynamic), History(n),
                                qs[1], qs[2], affection, "stranger")
    /\ pc = "chat"
    /\ result = NoResult
    /\ trace = <<>>
    /\ received = <<>>
    /\ calls = <<>>
    /\ InitUnit
    /\ InitDb

NextPM ==
    \/ chat_node
    \/ check_quests_node
    \/ update_profile_node
    \/ summarize_node
    \/ process_message_return

SpecPM == InitPM /\ [][NextPM]_vars

\* graph.invoke runs the nodes of one invocation to the end without yielding, and
\* every completion call returns or raises: a node that can run does run
SpecPMFair == SpecPM /\ WF_vars(NextPM)

-----------------------------------------------------------------------------
(* Direct calls of the stage methods, as the unit tests and __main__ blocks make *)

InitOrchIdle ==
    /\ pc = "idle"
    /\ state = <<>>
    /\ result = NoResult
    /\ trace = <<>>
    /\ received = <<>>
    /\ calls = <<>>

InitStage ==
    /\ InitOrchIdle
    /\ InitUnit
    /\ InitDb

\* summarizer.get_memory(history, character_name): calls holds this call's requests
call_get_memory ==
    /\ \E n \in 0..MaxHist, completion \in MemoryOutputs :
          LET got == get_memory(History(n), "Luna", completion)
          IN  /\ call' = [op |-> "get_memory", history |-> History(n),
                          completion |-> completion]
              /\ \/ /\ got.requests # <<>>
                    /\ calls' = <<Raised(got.requests[1])>>
                    /\ ret' = [raised |-> TRUE]
                 \/ /\ calls' = [i \in 1..Len(got.requests) |-> Returned(got.requests[i])]
                    /\ ret' = [raised |-> FALSE, value |-> got.value]
              /\ received' = <<Received("summarize", History(n))>>
    /\ UNCHANGED <<pc, state, result, trace, db_vars>>

\* profiler.update_profile(character, history): the addendum is a fresh one or the
\* one the previous call returned
call_update_profile ==
    /\ \E existing \in Addenda \cup
              (IF /\ call # <<>> /\ call.op = "update_profile" /\ ~ret.raised
                  /\ Len(ret.value) <= MaxAddendumLen
               THEN {ret.value} ELSE {}),
          n \in {0, 8}, completion \in ProfileOutputs :
          LET character == CharacterDict("Luna", existing)
              request == dynamic_profile_request(History(n), character.details, None)
          IN  /\ call' = [op |-> "update_profile", character |-> character,
                          history |-> History(n), completion |-> completion]
              /\ \/ /\ calls' = <<Raised(request)>>
                    /\ ret' = [raised |-> TRUE]
                 \/ /\ calls' = <<Returned(request)>>
                    /\ ret' = [raised |-> FALSE,
                               value |-> update_profile(character, completion)]
              /\ received' = <<Received("update_profile", History(n))>>
    /\ UNCHANGED <<pc, state, result, trace, db_vars>>

\* checker.check_quests(history, regular_quests, advancement_quests, ...)
call_check_quests ==
    /\ \E n \in 0..MaxCheckHist, quest_input \in QuestInputs \ { <<None, None>> } :
          LET regular == check_quest_request(History(n), quest_input[1])
              advancement == check_advancement_quest_request(History(n), quest_input[2],
                                 DefaultAffection, "stranger")
          IN  /\ call' = [op |-> "check_quests", history |-> History(n),
                          regular_quests |-> quest_input[1],
                          advancement_quests |-> quest_input[2]]
              /\ received' = <<Received("check_quests", History(n))>>
              /\ \/ /\ calls' = <<Raised(regular)>>
                    /\ ret' = [raised |-> TRUE]
                 \/ /\ calls' = <<Returned(regular), Raised(advancement)>>
                    /\ ret' = [raised |-> TRUE]
                 \/ /\ calls' = <<Returned(regular), Returned(advancement)>>
                    /\ \E updated_regular \in QuestOutputs(quest_input[1]),
                          updated_advancement \in QuestOutputs(quest_input[2]) :
                          ret' = [raised |-> FALSE,
                                  value |-> check_quests(updated_regular,
                                                         updated_advancement)]
    /\ UNCHANGED <<pc, state, result, trace, db_vars>>

NextStage ==
    \/ call_get_memory
    \/ call_update_profile
    \/ call_check_quests

SpecStage == InitStage /\ [][NextStage]_vars

-----------------------------------------------------------------------------
(* The chat endpoint: POST /characters/{character_id}/chat *)

\* str(uuid.uuid4()): a session id no conversation has yet
Uuid(n) == <<"uuid", n>>

\* Conversation(character_id=..., session_id=...) with the column defaults
NewConversation(character_id, session_id) ==
    [character_id |-> character_id,
     session_id |-> session_id,
     affection_score |-> DefaultAffection,
     relationship_stage |-> "stranger",
     turn_count |-> 0]

\* Message(conversation_id=..., role="user", content=...)
UserMessage(conversation_id, content) ==
    [conversation_id |-> conversation_id, role |-> "user", content |-> content,
     affection_change |-> 0]

\* Message(conversation_id=..., role="assistant", ...) built from the response
AssistantMessage(conversation_id, response) ==
    [conversation_id |-> conversation_id, role |-> "assistant",
     content |-> response.dialogue,
     affection_change |-> Get(response, "affection_change", 0)]

\* db.query(Conversation).filter(session_id == ...).first(): its id, 0 for None
find_conversation(convs, session_id) ==
    IF Truthy(session_id) /\ \E i \in 1..Len(convs) : convs[i].session_id = session_id
    THEN CHOOSE i \in 1..Len(convs) :
            /\ convs[i].session_id = session_id
            /\ \A j \in 1..(i - 1) : convs[j].session_id # session_id
    ELSE 0

\* the history list built from the conversation's messages in timestamp order
load_history(msgs, conversation_id) ==
    LET of_conversation(m) == m.conversation_id = conversation_id
        mine == SelectSeq(msgs, of_conversation)
    IN  [i \in 1..Len(mine) |-> [role |-> mine[i].role, content |-> mine[i].content]]

\* positions of the character's quests of one type, in id order
RECURSIVE quest_ids(_, _, _, _)
quest_ids(qs, character_id, quest_type, from) ==
    IF from > Len(qs) THEN <<>>
    ELSE (IF qs[from].character_id = character_id /\ qs[from].quest_type = quest_type
          THEN <<from>> ELSE <<>>) \o quest_ids(qs, character_id, quest_type, from + 1)

\* the regular_quests dict main.py builds
load_regular_quests(qs, character_id) ==
    LET ids == quest_ids(qs, character_id, "regular", 1)
    IN  [quests |-> [i \in 1..Len(ids) |->
            [id |-> QuestIdStr("quest_", ids[i]), title |-> qs[ids[i]].title,
             description |-> qs[ids[i]].description, cleared |-> qs[ids[i]].cleared]]]

\* the advancement_quests dict main.py builds
load_advancement_quests(qs, character_id) ==
    LET ids == quest_ids(qs, character_id, "advancement", 1)
    IN  [quests |-> [i \in 1..Len(ids) |->
            [id |-> QuestIdStr("adv_", ids[i]), title |-> qs[ids[i]].title,
             description |-> qs[ids[i]].description,
             required_affection |-> qs[ids[i]].required_affection,
             cleared |-> qs[ids[i]].cleared]]]

\* character_dict
load_character(chars, character_id) ==
    [basics |-> [name |-> chars[character_id].name, age |-> chars[character_id].age,
                 occupation |-> chars[character_id].occupation],
     worldview |-> chars[character_id].worldview,
     details |-> chars[character_id].details,
     dynamic_profile |-> chars[character_id].dynamic_profile]

\* quest.cleared = updated_quest.get("cleared", 0), cleared_at set when first cleared
\* (cleared_at 0 is NULL, a time is the number of the request)
\* cleared_at stamped every time cleared = 1 is stored
store_cleared_restamped(quest, updated_quest, now) ==
    LET cleared == Get(updated_quest, "cleared", 0)
    IN  [quest EXCEPT !.cleared = cleared,
                      !.cleared_at = IF cleared = 1 THEN now ELSE @]

store_cleared(quest, updated_quest, now) ==
    LET cleared == Get(updated_quest, "cleared", 0)
    IN  [quest EXCEPT !.cleared = cleared,
                      !.cleared_at = IF cleared = 1 /\ quest.cleared_at = 0 THEN now ELSE @]

\* the loop over updated_regular + updated_advancement
RECURSIVE update_quests(_, _, _)
update_quests(qs, updated, now) ==
    IF updated = <<>> THEN qs
    ELSE LET quest_id_str == Get(Head(updated), "id", <<"", 0>>)
             quest_id == quest_id_str[2]
             stored == IF quest_id_str[1] \in {"quest_", "adv_"} /\ quest_id \in 1..Len(qs)
                       THEN [qs EXCEPT ![quest_id] = store_cleared(@, Head(updated), now)]
                       ELSE qs
         IN  update_quests(stored, Tail(updated), now)

\* db.commit() for one row: the session holds the row as it loaded it and the
\* values assigned since; the UPDATE sets the columns whose assigned value differs
\* from the loaded one and leaves the other columns of the stored row as they are
orm_flush(stored, loaded, assigned) ==
    [column \in DOMAIN stored |->
        IF assigned[column] # loaded[column] THEN assigned[column] ELSE stored[column]]

\* the quest rows the session holds: the character's rows as loaded before
\* process_message, any other row as db.query(Quest) finds it when updating
session_quests(qs, loaded, character_id) ==
    [q \in 1..Len(qs) |->
        IF q \in 1..Len(loaded) /\ loaded[q].character_id = character_id
        THEN loaded[q] ELSE qs[q]]

\* the quests table after "Update quests if checked" and the commit
persist_quests(qs, loaded, res, now) ==
    IF Truthy(Get(res, "updated_quests", None))
    THEN LET assigned == update_quests(loaded,
                 Get(Get(res.updated_quests, "regular_quests", <<>>), "quests", <<>>)
                   \o Get(Get(res.updated_quests, "advancement_quests", <<>>), "quests", <<>>),
                 now)
         IN  [q \in 1..Len(qs) |-> orm_flush(qs[q], loaded[q], assigned[q])]
    ELSE qs

\* the addendum assigned whether or not the result carries one
persist_profile_always(chars, character_id, loaded, res) ==
    [chars EXCEPT ![character_id] =
        orm_flush(@, loaded,
                  [loaded EXCEPT !.dynamic_profile =
                      Get(res, "updated_dynamic_profile", None)])]

\* the characters table after "Update character dynamic profile if changed" and
\* the commit
persist_profile(chars, character_id, loaded, res) ==
    IF Truthy(Get(res, "updated_dynamic_profile", None))
    THEN [chars EXCEPT ![character_id] =
            orm_flush(@, loaded,
                      [loaded EXCEPT !.dynamic_profile = res.updated_dynamic_profile])]
    ELSE chars

\* the reply's own affection_score stored instead of the clamped value
persist_conversation_reply_score(convs, conversation_id, loaded, res) ==
    [convs EXCEPT ![conversation_id].affection_score =
                      Get(res.response, "affection_score", loaded.affection_score),
                  ![conversation_id].turn_count = loaded.turn_count + 1]

\* the relationship stage recomputed from the new affection
persist_conversation_staged(convs, conversation_id, loaded, res) ==
    [convs EXCEPT ![conversation_id].affection_score = res.updated_affection,
                  ![conversation_id].turn_count = loaded.turn_count + 1,
                  ![conversation_id].relationship_stage =
                      IF res.updated_affection >= 80 THEN "friend" ELSE "stranger"]

\* the affection stored, the turn left uncounted
persist_conversation_uncounted(convs, conversation_id, loaded, res) ==
    [convs EXCEPT ![conversation_id].affection_score = res.updated_affection]

\* the turn counted on the stored row, not on the loaded one
persist_conversation_in_place(convs, conversation_id, loaded, res) ==
    [convs EXCEPT ![conversation_id].affection_score = res.updated_affection,
                  ![conversation_id].turn_count = @ + 1]

\* the conversations table after "Update conversation state" and the commit:
\* the loaded row's turn_count + 1 is written
persist_conversation(convs, conversation_id, loaded, res) ==
    [convs EXCEPT ![conversation_id] =
        orm_flush(@, loaded,
                  [loaded EXCEPT !.affection_score = res.updated_affection,
                                 !.turn_count = loaded.turn_count + 1])]

MemoryCategoryOrder ==
    <<"facts", "emotions", "key_events", "user_info", "character_revelations">>

\* the (category, fact) pairs the loops over memories.items() visit, in order;
\* iterating a str visits its characters
RECURSIVE memory_facts(_, _)
memory_facts(bundle, from) ==
    IF from > Len(MemoryCategoryOrder) THEN <<>>
    ELSE LET category == MemoryCategoryOrder[from]
             facts == IF category \in DOMAIN bundle THEN bundle[category].val ELSE <<>>
         IN  [i \in 1..Len(facts) |-> [category |-> category, content |-> facts[i]]]
             \o memory_facts(bundle, from + 1)

\* the state of the tables when the endpoint is first observed: after turns chat
\* requests on one session, in each of which the reply was ChatOutput("d1", 42, 3),
\* no quest was cleared, the profile had no updates and no fact was extracted
InitEndpoint ==
    /\ \E turns \in 0..MaxTurns :
          /\ conversations =
                IF turns = 0 THEN <<>>
                ELSE << [NewConversation(1, Uuid(1)) EXCEPT
                            !.affection_score = 42, !.turn_count = turns] >>
          /\ messages =
                [i \in 1..(2 * turns) |->
                    IF i % 2 = 1 THEN UserMessage(1, "hello")
                    ELSE AssistantMessage(1, ChatOutput("d1", 42, 3))]
    /\ characters =
          << [name |-> "Luna", age |-> "25", occupation |-> "Cafe owner",
              worldview |-> "w", details |-> [personality |-> "warm"],
              dynamic_profile |-> <<>>] >>
    /\ quests =
          << [character_id |-> 1, quest_type |-> "regular", title |-> "t",
              description |-> "d", required_affection |-> 0, cleared |-> 0,
              cleared_at |-> 0],
             [character_id |-> 1, quest_type |-> "advancement", title |-> "t",
              description |-> "d", required_affection |-> 60, cleared |-> 0,
              cleared_at |-> 0] >>
    /\ memories = <<>>
    /\ vector_store = {}
    /\ req = <<>>
    /\ chats = 0
    /\ other = <<>>
    /\ InitOrchIdle
    /\ InitUnit

\* the request names no character: 404
chat_character_not_found ==
    /\ pc = "idle"
    /\ chats < MaxChats
    /\ chats' = chats + 1
    /\ req' = [status |-> 404]
    /\ UNCHANGED <<characters, conversations, messages, quests, memories, vector_store>>
    /\ UNCHANGED <<orch_vars, unit_vars, other>>

\* the HTTP requests a client may send: ChatRequest's session_id in the body
\* (absent, unknown or an existing session's), or, as the API test does, an
\* existing session's id in the X-Session-Id header and none in the body
ChatRequests(convs) ==
    LET known == { convs[i].session_id : i \in 1..Len(convs) }
    IN  { [session_id |-> b, x_session_id |-> None] : b \in {None, Uuid(0)} \cup known }
        \cup { [session_id |-> None, x_session_id |-> h] : h \in known }

\* a new conversation given the session id the client supplied
load_request_supplied_id(chars, convs, msgs, qs, character_id, http_request) ==
    LET requested == http_request.session_id
        found == find_conversation(convs, requested)
        session_id == IF requested = None THEN Uuid(Len(convs) + 1) ELSE requested
        with_new == IF found = 0
                    THEN Append(convs, NewConversation(character_id, session_id))
                    ELSE convs
        conversation_id == IF found = 0 THEN Len(with_new) ELSE found
        conversation == with_new[conversation_id]
    IN  [conversations |-> with_new,
         req |-> [status |-> 0, character_id |-> character_id,
                  x_session_id |-> http_request.x_session_id,
                  session_id |-> session_id, message |-> "hello",
                  conversation_id |-> conversation_id,
                  conversation |-> conversation,
                  character |-> chars[character_id],
                  quests |-> qs],
         state |-> initial_state("hello",
                                 load_character(chars, character_id),
                                 load_history(msgs, conversation_id),
                                 load_regular_quests(qs, character_id),
                                 load_advancement_quests(qs, character_id),
                                 conversation.affection_score,
                                 conversation.relationship_stage)]

\* what chat_with_character holds when it calls process_message: the
\* conversations table with the conversation it found or created (and committed),
\* the rows its session loaded, and the arguments of process_message
load_request(chars, convs, msgs, qs, character_id, http_request) ==
    LET requested == http_request.session_id
        found == find_conversation(convs, requested)
        session_id == IF found = 0 THEN Uuid(Len(convs) + 1) ELSE requested
        with_new == IF found = 0
                    THEN Append(convs, NewConversation(character_id, session_id))
                    ELSE convs
        conversation_id == IF found = 0 THEN Len(with_new) ELSE found
        conversation == with_new[conversation_id]
    IN  [conversations |-> with_new,
         req |-> [status |-> 0, character_id |-> character_id,
                  x_session_id |-> http_request.x_session_id,
                  session_id |-> session_id, message |-> "hello",
                  conversation_id |-> conversation_id,
                  conversation |-> conversation,
                  character |-> chars[character_id],
                  quests |-> qs],
         state |-> initial_state("hello",
                                 load_character(chars, character_id),
                                 load_history(msgs, conversation_id),
                                 load_regular_quests(qs, character_id),
                                 load_advancement_quests(qs, character_id),
                                 conversation.affection_score,
                                 conversation.relationship_stage)]

\* chat_with_character up to the call of process_message: load the character,
\* load or create (and commit) the conversation, load history and quests
chat_load ==
    /\ pc = "idle"
    /\ chats < MaxChats
    /\ chats' = chats + 1
    /\ \E character_id \in 1..Len(characters),
          http_request \in ChatRequests(conversations) :
          LET loaded == load_request(characters, conversations, messages, quests,
                                     character_id, http_request)
          IN  /\ conversations' = loaded.conversations
              /\ req' = loaded.req
              /\ state' = loaded.state
    /\ pc' = "chat"
    /\ result' = NoResult
    /\ trace' = <<>>
    /\ received' = <<>>
    /\ calls' = <<>>
    /\ UNCHANGED <<characters, messages, quests, memories, vector_store>>
    /\ UNCHANGED <<unit_vars, other>>

\* the user message saved and committed before process_message was called
chat_failed_user_saved ==
    /\ pc = "failed"
    /\ pc' = "idle"
    /\ req' = [status |-> 500]
    /\ state' = <<>>
    /\ result' = NoResult
    /\ trace' = <<>>
    /\ received' = <<>>
    /\ calls' = <<>>
    /\ messages' = Append(messages, UserMessage(req.conversation_id, req.message))
    /\ UNCHANGED <<characters, conversations, quests, memories, vector_store, chats>>
    /\ UNCHANGED <<unit_vars, other>>

\* process_message raised: the handler raises, the session is closed uncommitted
chat_failed ==
    /\ pc = "failed"
    /\ pc' = "idle"
    /\ req' = [status |-> 500]
    /\ state' = <<>>
    /\ result' = NoResult
    /\ trace' = <<>>
    /\ received' = <<>>
    /\ calls' = <<>>
    /\ UNCHANGED <<characters, conversations, messages, quests, memories, vector_store,
                   chats>>
    /\ UNCHANGED <<unit_vars, other>>

\* the Memory rows added for the facts of the bundle
memory_rows(r, facts) ==
    [i \in 1..Len(facts) |->
        [character_id |-> r.character_id,
         conversation_id |-> r.conversation_id,
         category |-> facts[i].category,
         content |-> facts[i].content]]

\* what vector_store.add_memory received for the first n facts: memory.id is
\* the id the row got at db.flush()
added_memories(r, stored, n) ==
    { [character_id |-> r.character_id, memory_id |-> stored + i] : i \in 1..n }

\* chat_with_character after process_message returned: add the two messages,
\* update conversation, character and quests, store the memories, commit
chat_persist ==
    /\ pc = "done"
    /\ pc' = "idle"
    /\ state' = <<>>
    /\ result' = NoResult
    /\ trace' = <<>>
    /\ received' = <<>>
    /\ calls' = <<>>
    /\ LET bundle == Get(result, "memories", JDict(<<>>))
           facts == memory_facts(bundle.val, 1)
           rows == memory_rows(req, facts)
           added(n) == added_memories(req, Len(memories), n)
       IN  \/ \* memories is not a dict: memories.items() raises, nothing is committed
              /\ bundle.kind # "dict"
              /\ req' = [status |-> 500]
              /\ UNCHANGED <<characters, conversations, messages, quests, memories,
                             vector_store>>
           \/ \* the embedding of the k-th fact raises: nothing is committed, the
              \* vector store keeps what it was given before
              /\ bundle.kind = "dict"
              /\ \E k \in 1..Len(facts) :
                    vector_store' = vector_store \cup added(k - 1)
              /\ req' = [status |-> 500]
              /\ UNCHANGED <<characters, conversations, messages, quests, memories>>
           \/ \* db.commit()
              /\ bundle.kind = "dict"
              /\ messages' = messages \o
                    << UserMessage(req.conversation_id, req.message),
                       AssistantMessage(req.conversation_id, result.response) >>
              /\ conversations' = persist_conversation(conversations, req.conversation_id,
                                                       req.conversation, result)
              /\ characters' = persist_profile(characters, req.character_id,
                                                req.character, result)
              /\ quests' = persist_quests(quests,
                                session_quests(quests, req.quests, req.character_id),
                                result, chats)
              /\ memories' = memories \o rows
              /\ vector_store' = vector_store \cup added(Len(facts))
              /\ req' = [status |-> 200, session_id |-> req.session_id,
                         turn_count |-> req.conversation.turn_count + 1]
    /\ UNCHANGED chats
    /\ UNCHANGED <<unit_vars, other>>

Init == InitEndpoint

Next ==
    \/ chat_character_not_found
    \/ chat_load
    \/ chat_node
    \/ check_quests_node
    \/ update_profile_node
    \/ summarize_node
    \/ process_message_return
    \/ chat_failed
    \/ chat_persist

Spec == Init /\ [][Next]_vars

(***************************************************************************)
(* Two handlers of the chat endpoint running side by side: each has its    *)
(* own database session, and neither main.py nor the orchestrator holds a  *)
(* lock between the load and the commit                                    *)
(***************************************************************************)

\* the results process_message can return for the state it starts from, given
\* what the completions may return (the quest checks for the two collections
\* of that state): the nodes the routing enters, in order
process_message_results(st, chat_outputs, regular_outputs, advancement_outputs, profile_outputs, memory_outputs) ==
    LET checks(s) == edge_after_chat(route_after_chat(s)) = "check_quests"
        profiles(s) ==
            /\ checks(s)
            /\ edge_after_quest_check(route_after_quest_check(s)) = "update_profile"
        chatted ==
            { [st EXCEPT !.response = raw, !.updated_affection = new_affection(st, raw)] :
                raw \in { r \in chat_outputs : ChatResponse(r) } }
        checked(s) ==
            IF checks(s)
            THEN { [s EXCEPT !.updated_quests = check_quests(regular, advancement)] :
                     regular \in regular_outputs,
                     advancement \in advancement_outputs }
            ELSE {s}
        profiled(s) ==
            IF profiles(s)
            THEN { [s EXCEPT !.updated_dynamic_profile = update_profile(s.character, c)] :
                     c \in profile_outputs }
            ELSE {s}
        summarized(s) ==
            { [s EXCEPT !.memories =
                    get_memory(updated_history(s), s.character.basics.name, c).value] :
                c \in memory_outputs }
        after_check == UNION { checked(s) : s \in chatted }
        after_profile == UNION { profiled(s) : s \in after_check }
        after_summarize == UNION { summarized(s) : s \in after_profile }
    IN  { turn_result(s) : s \in after_summarize }

\* what the completions return to the second handler: a reply whose score is
\* the stored one or above the range, the quests as given or all cleared, a
\* profile addition or none, an empty memory bundle
OtherChatOutputs == { ChatOutput("d1", 42, 3), ChatOutput("d2", 137, 3) }

OtherQuestOutputs(dict_quest) ==
    { out \in QuestOutputs(dict_quest) :
        /\ Len(out.quests) = Len(dict_quest.quests)
        /\ \A i \in 1..Len(out.quests) : out.quests[i].id = dict_quest.quests[i].id
        /\ \/ \A i \in 1..Len(out.quests) : out.quests[i].cleared = dict_quest.quests[i].cleared
           \/ \A i \in 1..Len(out.quests) : out.quests[i].cleared = 1 }

OtherProfileOutputs ==
    { <<" ","c","a","t"," ","\n">>,
      <<"N","o"," ","s","i","g","n","i","f","i","c","a","n","t"," ",
        "u","p","d","a","t","e","s">> }

OtherMemoryOutputs == { MemoryBundle(<<>>, <<>>) }

\* a stored database in which character 1 has two conversations: the first of
\* one length for each route, the second long enough for the full route
ConcTurns == {SummarizeOnlyBelow - 1, SummarizeOnlyBelow, FullProcessFrom}

InitConc ==
    /\ \E turns \in ConcTurns :
          /\ conversations =
                << [NewConversation(1, Uuid(1)) EXCEPT
                       !.affection_score = 42, !.turn_count = turns],
                   [NewConversation(1, Uuid(2)) EXCEPT
                       !.affection_score = 42, !.turn_count = FullProcessFrom] >>
          /\ messages =
                [i \in 1..(2 * turns + 2 * FullProcessFrom) |->
                    LET conversation_id == IF i <= 2 * turns THEN 1 ELSE 2
                    IN  IF i % 2 = 1 THEN UserMessage(conversation_id, "hello")
                        ELSE AssistantMessage(conversation_id, ChatOutput("d1", 42, 3))]
    /\ characters =
          << [name |-> "Luna", age |-> "25", occupation |-> "Cafe owner",
              worldview |-> "w", details |-> [personality |-> "warm"],
              dynamic_profile |-> <<>>] >>
    /\ quests =
          << [character_id |-> 1, quest_type |-> "regular", title |-> "t",
              description |-> "d", required_affection |-> 0, cleared |-> 0,
              cleared_at |-> 0],
             [character_id |-> 1, quest_type |-> "advancement", title |-> "t",
              description |-> "d", required_affection |-> 60, cleared |-> 0,
              cleared_at |-> 0] >>
    /\ memories = <<>>
    /\ vector_store = {}
    /\ req = <<>>
    /\ chats = 0
    /\ other = <<>>
    /\ InitOrchIdle
    /\ InitUnit

\* the first handler takes one request, for the first conversation
first_chat_load ==
    /\ chats = 0
    /\ chat_load
    /\ req'.conversation_id = 1
    /\ req'.x_session_id = None

\* the second handler up to its call of process_message, for a request that
\* names an existing session in its body
other_load ==
    /\ other = <<>>
    /\ \E character_id \in 1..Len(characters),
          http_request \in { r \in ChatRequests(conversations) :
                               /\ r.x_session_id = None
                               /\ find_conversation(conversations, r.session_id) # 0 } :
          LET loaded == load_request(characters, conversations, messages, quests,
                                     character_id, http_request)
          IN  /\ conversations' = loaded.conversations
              /\ other' = [phase |-> "loaded", req |-> loaded.req, state |-> loaded.state]
    /\ UNCHANGED <<characters, messages, quests, memories, vector_store, req, chats>>
    /\ UNCHANGED <<orch_vars, unit_vars>>

\* process_message raised in the second handler: its session is closed uncommitted
other_failed ==
    /\ Get(other, "phase", "") = "loaded"
    /\ other' = [phase |-> "failed", req |-> [status |-> 500]]
    /\ UNCHANGED <<characters, conversations, messages, quests, memories, vector_store,
                   req, chats>>
    /\ UNCHANGED <<orch_vars, unit_vars>>

\* process_message returned in the second handler and it persists the turn from
\* the rows it loaded
other_commit ==
    /\ Get(other, "phase", "") = "loaded"
    /\ \E res \in process_message_results(other.state, OtherChatOutputs,
                                          OtherQuestOutputs(other.state.regular_quests),
                                          OtherQuestOutputs(other.state.advancement_quests),
                                          OtherProfileOutputs, OtherMemoryOutputs) :
          LET r == other.req
              facts == memory_facts(res.memories.val, 1)
          IN  /\ messages' = messages \o
                    << UserMessage(r.conversation_id, r.message),
                       AssistantMessage(r.conversation_id, res.response) >>
              /\ conversations' = persist_conversation(conversations, r.conversation_id,
                                                       r.conversation, res)
              /\ characters' = persist_profile(characters, r.character_id, r.character, res)
              /\ quests' = persist_quests(quests,
                                session_quests(quests, r.quests, r.character_id),
                                res, chats + 1)
              /\ memories' = memories \o memory_rows(r, facts)
              /\ vector_store' = vector_store
                                    \cup added_memories(r, Len(memories), Len(facts))
              /\ other' = [phase |-> "committed", req |-> [r EXCEPT !.status = 200],
                           result |-> res]
    /\ UNCHANGED <<req, chats>>
    /\ UNCHANGED <<orch_vars, unit_vars>>

NextConc ==
    \/ first_chat_load
    \/ chat_node
    \/ check_quests_node
    \/ update_profile_node
    \/ summarize_node
    \/ process_message_return
    \/ chat_failed
    \/ chat_persist
    \/ other_load
    \/ other_failed
    \/ other_commit

SpecConc == InitConc /\ [][NextConc]_vars

(***************************************************************************)
(* One chat request over a store that holds two characters, each with its  *)
(* own quests and its own conversation                                     *)
(***************************************************************************)

InitOwner ==
    /\ \E turns \in {SummarizeOnlyBelow, FullProcessFrom} :
          /\ conversations =
                << [NewConversation(1, Uuid(1)) EXCEPT
                       !.affection_score = 42, !.turn_count = turns],
                   [NewConversation(2, Uuid(2)) EXCEPT
                       !.affection_score = 42, !.turn_count = turns] >>
          /\ messages =
                [i \in 1..(4 * turns) |->
                    LET conversation_id == IF i <= 2 * turns THEN 1 ELSE 2
                    IN  IF i % 2 = 1 THEN UserMessage(conversation_id, "hello")
                        ELSE AssistantMessage(conversation_id, ChatOutput("d1", 42, 3))]
    /\ characters =
          << [name |-> "Luna", age |-> "25", occupation |-> "Cafe owner",
              worldview |-> "w", details |-> [personality |-> "warm"],
              dynamic_profile |-> <<>>],
             [name |-> "Milo", age |-> "31", occupation |-> "Baker",
              worldview |-> "w", details |-> [personality |-> "shy"],
              dynamic_profile |-> <<>>] >>
    /\ quests = TwoCharacterQuests
    /\ memories = <<>>
    /\ vector_store = {}
    /\ req = <<>>
    /\ chats = 0
    /\ other = <<>>
    /\ InitOrchIdle
    /\ InitUnit

\* the endpoint takes one request, for either character
single_chat_load ==
    /\ chats = 0
    /\ chat_load

NextOwner ==
    \/ chat_character_not_found
    \/ single_chat_load
    \/ chat_node
    \/ check_quests_node
    \/ update_profile_node
    \/ summarize_node
    \/ process_message_return
    \/ chat_failed
    \/ chat_persist

SpecOwner == InitOwner /\ [][NextOwner]_vars

-----------------------------------------------------------------------------
(* Properties of process_message *)

Range(seq) == { seq[i] : i \in DOMAIN seq }

TurnCountOf(history) == Len(history) \div 2

\* the stages the specification schedules after the Response Stage
ExpectedStages(turnCount) ==
    IF turnCount < 3 THEN <<"summarize">>
    ELSE IF turnCount < 10 THEN <<"check_quests", "summarize">>
    ELSE <<"check_quests", "update_profile", "summarize">>

\* C1: when every stage succeeded, the stages run after the Response Stage are
\* those the turn count len(history) // 2 alone selects (Memory; Quest, Memory;
\* Quest, Profile, Memory), whatever the quests, the affection and the reply are;
\* with a history of 8 messages the Profile Stage is never entered or called.
C1_RouteByTurnCount ==
    /\ pc = "done" =>
         trace = <<"chat">> \o ExpectedStages(TurnCountOf(state.history))
    /\ Len(state.history) = 8 =>
         /\ "update_profile" \notin Range(trace)
         /\ \A i \in 1..Len(calls) : calls[i].request.op # "dynamic_profile"

C1_Witness ==
    /\ pc = "done"
    /\ Len(state.history) = 8
    /\ state.character.basics.name = "Luna"
    /\ state.current_affection = 65
    /\ trace = <<"chat", "check_quests", "summarize">>

Clamp(s) == IF s < 0 THEN 0 ELSE IF s > 100 THEN 100 ELSE s

\* C2: the updated affection of a turn is the Response Stage's score clamped into
\* [0,100], whatever the current affection is; a score out of range is corrected
\* and the turn still completes.
C2_AffectionClamp ==
    /\ state.response # <<>> =>
         state.updated_affection = Clamp(state.response.affection_score)
    /\ pc = "done" =>
         result.updated_affection = Clamp(result.response.affection_score)

C2_Witness ==
    /\ pc = "done"
    /\ result.response.affection_score = 137
    /\ result.updated_affection = 100
    /\ state.current_affection = 65

StageOrder(node) ==
    CASE node = "chat" -> 1
      [] node = "check_quests" -> 2
      [] node = "update_profile" -> 3
      [] node = "summarize" -> 4

\* C3: the stages of one invocation run one after another in the fixed order
\* Response, Quest, Profile, Memory: Response is first, Memory is the last stage
\* of every completed route, and a 20-message history runs all four in that order.
C3_StagesSequential ==
    /\ \A i, j \in 1..Len(trace) : i < j => StageOrder(trace[i]) < StageOrder(trace[j])
    /\ trace # <<>> => trace[1] = "chat"
    /\ pc \in {"END", "done"} => trace[Len(trace)] = "summarize"
    /\ (pc = "done" /\ Len(state.history) = 20) =>
         trace = <<"chat", "check_quests", "update_profile", "summarize">>

C3_Witness ==
    /\ pc = "done"
    /\ Len(state.history) = 20
    /\ trace = <<"chat", "check_quests", "update_profile", "summarize">>
    /\ [i \in 1..Len(calls) |-> calls[i].request.op] =
          <<"chat", "check_quest", "check_advancement_quest", "dynamic_profile",
            "get_memory">>

QuestKinds == {"regular_quests", "advancement_quests"}

\* C4: a quest passed to process_message with cleared = 1 has cleared = 1 in the
\* returned updated_quests, whatever the Quest Stage's completions returned.
C4_QuestMonotoneInResult ==
    (pc = "done" /\ result.updated_quests # <<>>) =>
        \A kind \in QuestKinds :
            \A i \in 1..Len(state[kind].quests) :
                state[kind].quests[i].cleared = 1 =>
                    \A j \in 1..Len(result.updated_quests[kind].quests) :
                        result.updated_quests[kind].quests[j].id = state[kind].quests[i].id
                            => result.updated_quests[kind].quests[j].cleared = 1

NodeOfCall(op) ==
    CASE op = "chat" -> "chat"
      [] op \in {"check_quest", "check_advancement_quest"} -> "check_quests"
      [] op = "dynamic_profile" -> "update_profile"
      [] op = "get_memory" -> "summarize"

C7_DefaultsAndMemoryShape ==
    pc = "done" =>
        /\ TurnCountOf(state.history) < 3 =>
              /\ result.updated_quests = <<>>
              /\ result.updated_dynamic_profile = <<>>
        /\ TurnCountOf(state.history) < 10 => result.updated_dynamic_profile = <<>>
        /\ result.memories.kind = "dict"
        /\ \A category \in DOMAIN result.memories.val :
              result.memories.val[category].kind = "list"

-----------------------------------------------------------------------------
(* Properties of the stage methods *)

\* C8: get_memory on a history of 0 or 1 messages returns the five categories,
\* each an empty list, and sends nothing to the completion capability.
C8_MemoryShortCircuit ==
    (call # <<>> /\ call.op = "get_memory" /\ Len(call.history) \in {0, 1}) =>
        /\ ~ret.raised
        /\ ret.value.kind = "dict"
        /\ DOMAIN ret.value.val =
              {"facts", "emotions", "key_events", "user_info", "character_revelations"}
        /\ \A category \in DOMAIN ret.value.val :
              ret.value.val[category] = [kind |-> "list", val |-> <<>>]
        /\ calls = <<>>

C8_Witness ==
    /\ call # <<>>
    /\ call.op = "get_memory"
    /\ Len(call.history) = 1
    /\ call.completion.kind = "dict"
    /\ "facts" \in DOMAIN call.completion.val
    /\ call.completion.val.facts.val # <<>>
    /\ ret.value.val.facts.val = <<>>
    /\ calls = <<>>

\* the characters c and m are the same letter, whatever the case of c
SameLetter(c, m) ==
    c = m \/ \E k \in 1..26 : UpperCase[k] = c /\ LowerCase[k] = m

\* the text holds 'no significant updates' in some mix of upper and lower case
HasMarkerAnyCase(text) ==
    \E i \in 0..(Len(text) - Len(NoUpdatesMarker)) :
        \A k \in 1..Len(NoUpdatesMarker) : SameLetter(text[i + k], NoUpdatesMarker[k])

\* C9: when the completion's text holds the 'no significant updates' marker in any
\* letter case, update_profile returns the existing addendum exactly; also when
\* the addendum is what an earlier call returned.
C9_EmptyProfileIdempotent ==
    (call # <<>> /\ call.op = "update_profile" /\ ~ret.raised
        /\ HasMarkerAnyCase(call.completion)) =>
        ret.value = call.character.dynamic_profile

C9_Witness ==
    /\ call # <<>>
    /\ call.op = "update_profile"
    /\ ~ret.raised
    /\ HasMarkerAnyCase(call.completion)
    /\ ~Contains(NoUpdatesMarker, call.completion)
    /\ Contains(RecentUpdatesHeading, call.character.dynamic_profile)
    /\ ret.value = call.character.dynamic_profile

-----------------------------------------------------------------------------
(* Properties of the chat endpoint *)

\* C5: over any sequence of chat requests, a stored quest whose cleared flag is 1
\* is never stored with 0 again, whatever the quest checks return later.
C5_StoredQuestMonotone ==
    [][\A q \in 1..Len(quests) :
          quests[q].cleared = 1 => quests'[q].cleared = 1]_vars

\* the profile stage of the request in flight has returned
ProfileStageReturned ==
    \E i \in 1..Len(calls) :
        calls[i].request.op = "dynamic_profile" /\ ~calls[i].raised

\* C10: every value update_profile returns has the existing addendum as an exact
\* prefix, and over chat requests handled one at a time a character's stored
\* dynamic_profile only stays equal or is extended at its end.
C10_AddendumAppendOnly ==
    /\ [](ProfileStageReturned =>
            IsPrefix(state.character.dynamic_profile, state.updated_dynamic_profile))
    /\ [][\A c \in 1..Len(characters) :
            IsPrefix(characters[c].dynamic_profile, characters'[c].dynamic_profile)]_vars

\* a second request has appended to an addendum an earlier request stored
C10_Witness ==
    /\ pc = "idle"
    /\ Get(req, "status", 0) = 200
    /\ \E c \in 1..Len(characters) :
          /\ Contains(RecentUpdatesHeading, characters[c].dynamic_profile)
          /\ ~IsPrefix(RecentUpdatesHeading, characters[c].dynamic_profile)

-----------------------------------------------------------------------------
(* Properties of process_message: what the stages are given *)

\* the stages that run after the Response Stage
LaterStages == {"check_quests", "update_profile", "summarize"}

\* C11: the Response Stage receives the input history as it was given; every
\* stage executed after it receives the input history followed by exactly two
\* new entries, the user message and then the reply dialogue of this invocation.
C11_StagesReceiveExtendedHistory ==
    \A i \in 1..Len(received) :
        LET given == received[i].history
            n == Len(state.history)
        IN  IF received[i].stage = "chat"
            THEN given = state.history
            ELSE /\ received[i].stage \in LaterStages
                 /\ Len(given) = n + 2
                 /\ \A j \in 1..n : given[j] = state.history[j]
                 /\ given[n + 1] = [role |-> "user", content |-> state.user_message]
                 /\ given[n + 2] = [role |-> "assistant",
                                    content |-> state.response.dialogue]

\* all four stages ran on a non-empty history and the reply was "d2"
C11_Witness ==
    /\ pc = "done"
    /\ Len(received) = 4
    /\ Len(state.history) >= 20
    /\ state.response.dialogue = "d2"
    /\ { received[i].stage : i \in 2..4 } = LaterStages

\* C12: process_message never mutates the history it was given and never changes
\* turn_count after computing it: over every step of a call, on every route and
\* when a stage fails, history keeps its length and entries, and turn_count
\* stays the value computed from it.
C12_HistoryNotMutated ==
    [][(state # <<>> /\ state' # <<>>) =>
          /\ state'.history = state.history
          /\ state'.turn_count = state.turn_count
          /\ state'.turn_count = Len(state'.history) \div 2]_vars

\* the last of four stages failed on a history of 20 messages
C12_Witness ==
    /\ pc = "failed"
    /\ Len(trace) = 4
    /\ Len(state.history) = 20
    /\ state.turn_count = 10

\* the sub-operations a call with this turn count makes when none fails
ExpectedCalls(turnCount) ==
    IF turnCount < 3 THEN <<"chat", "get_memory">>
    ELSE IF turnCount < 10
         THEN <<"chat", "check_quest", "check_advancement_quest", "get_memory">>
         ELSE <<"chat", "check_quest", "check_advancement_quest", "dynamic_profile",
                "get_memory">>

\* C13: no stage is retried: each stage runs at most once, each sub-operation is
\* called at most once, a call that completes has made exactly 2, 4 or 5 calls
\* by its turn count, and after a failed call no further call is made.
C13_NoRetry ==
    /\ \A i, j \in 1..Len(trace) : trace[i] = trace[j] => i = j
    /\ \A i, j \in 1..Len(calls) : calls[i].request.op = calls[j].request.op => i = j
    /\ \A i \in 1..Len(calls) : calls[i].raised => i = Len(calls)
    /\ pc \in {"END", "done"} =>
         /\ [i \in 1..Len(calls) |-> calls[i].request.op]
              = ExpectedCalls(TurnCountOf(state.history))
         /\ \A i \in 1..Len(calls) : ~calls[i].raised

\* a call with turn count 10 completed after five calls
C13_Witness ==
    /\ pc = "done"
    /\ Len(calls) = 5
    /\ Len(state.history) = 20

\* C15: in every TurnResult process_message returns, the structured reply's
\* affection_score lies in [0,100] and its affection_change in [-10,10].
C15_ReplyRanges ==
    result # NoResult =>
        /\ result.response.affection_score \in 0..100
        /\ result.response.affection_change \in (0 - 10)..10

-----------------------------------------------------------------------------
(* Properties of the quest checks *)

\* the history the checker was called with
CheckerGiven == (CHOOSE r \in 1..Len(received) : received[r].stage = "check_quests")

\* the request of the named sub-operation, when the checker has sent it
CheckerSent(op) == { i \in 1..Len(calls) : calls[i].request.op = op }

\* one line of history as the checker formats it
FormattedTurn(turn) == [role |-> RoleUpper(turn.role), content |-> turn.content]

\* C18: the milestone (advancement) check is given the full extended history,
\* every message of the conversation including those older than the last 3 turns.
C18_MilestoneCheckFullHistory ==
    \A i \in CheckerSent("check_advancement_quest") :
        LET given == received[CheckerGiven].history
            sent == calls[i].request.history
        IN  /\ Len(sent) = Len(given)
            /\ \A j \in 1..Len(given) : sent[j] = FormattedTurn(given[j])

\* C19: the regular quest check is given exactly the last 6 messages of the
\* history the checker was called with, in their original order and ending with
\* the newest; a history of fewer than 6 messages is given whole.
C19_RegularCheckLastSix ==
    \A i \in CheckerSent("check_quest") :
        LET given == received[CheckerGiven].history
            sent == calls[i].request.history
            n == Len(given)
            k == IF n < 6 THEN n ELSE 6
        IN  /\ Len(sent) = k
            /\ \A j \in 1..k : sent[j] = FormattedTurn(given[n - k + j])

\* the regular check was sent for a history of 4 messages
C19_Witness ==
    /\ call # <<>>
    /\ call.op = "check_quests"
    /\ Len(call.history) = 4
    /\ CheckerSent("check_quest") # {}
    /\ Len(calls[1].request.history) = 4

\* the quests of a collection with their cleared flags left out
Uncleared(collection) ==
    LET qs == Get(collection, "quests", <<>>)
    IN  [i \in 1..Len(qs) |->
            [f \in DOMAIN qs[i] \ {"cleared"} |-> qs[i][f]]]

\* C20: for every Quest Stage output, the routine and milestone collections in
\* TurnResult.updated_quests hold exactly the quests of the input collections,
\* same ids, titles, descriptions, required_affection, number and type; only the
\* cleared values may differ and no quest changes collection.
C20_QuestShapePreserved ==
    (result # NoResult /\ Truthy(result.updated_quests)) =>
        /\ DOMAIN result.updated_quests = {"regular_quests", "advancement_quests"}
        /\ Uncleared(result.updated_quests.regular_quests)
              = Uncleared(state.regular_quests)
        /\ Uncleared(result.updated_quests.advancement_quests)
              = Uncleared(state.advancement_quests)
        /\ \A kind \in {"regular_quests", "advancement_quests"} :
              \A i \in 1..Len(result.updated_quests[kind].quests) :
                  "cleared" \in DOMAIN result.updated_quests[kind].quests[i]

-----------------------------------------------------------------------------
(* Properties of the chat endpoint: turns, affection, sessions *)

\* C14: history grows by exactly one turn per successful request: a conversation
\* that has had n successful requests, handled one at a time, holds exactly 2n
\* messages alternating user, assistant, its turn_count is n, and the turn count
\* process_message computes for the next request equals the stored turn_count.
C14_OneTurnPerSuccessfulRequest ==
    /\ \A c \in 1..Len(conversations) :
          LET history == load_history(messages, c)
          IN  /\ Len(history) = 2 * conversations[c].turn_count
              /\ \A i \in 1..Len(history) :
                    history[i].role = IF i % 2 = 1 THEN "user" ELSE "assistant"
    /\ state # <<>> =>
          state.turn_count = conversations[req.conversation_id].turn_count

\* two successful requests on a session the first of them created
C14_Witness ==
    /\ pc = "idle"
    /\ Len(conversations) = 2
    /\ conversations[2].turn_count = 2
    /\ Len(load_history(messages, 2)) = 4
    /\ Len(load_history(messages, 1)) > 0

\* C16: after any sequence of chat requests on a conversation, successful or
\* failed, its stored affection_score is an integer in [0,100]; a conversation
\* that has had no successful request holds the default 50.
C16_StoredAffectionInRange ==
    \A c \in 1..Len(conversations) :
        /\ conversations[c].affection_score \in 0..100
        /\ conversations[c].turn_count = 0 =>
              conversations[c].affection_score = DefaultAffection

\* a reply scored below 0 was stored as 0, and a later request failed
C16_Witness ==
    /\ pc = "idle"
    /\ Get(req, "status", 0) = 500
    /\ \E c \in 1..Len(conversations) : conversations[c].affection_score = 0

\* C17: a follow-up request that carries the previously returned session id in
\* the X-Session-Id header, its body holding only the message, is processed in
\* the conversation of that id: the same session_id is answered, the earlier
\* messages are the history and turn_count continues from its stored value.
C17_HeaderSessionContinues ==
    (state # <<>> /\ req.x_session_id # None) =>
        LET c == find_conversation(conversations, req.x_session_id)
        IN  /\ req.session_id = req.x_session_id
            /\ req.conversation_id = c
            /\ state.history = load_history(messages, c)
            /\ req.conversation.turn_count = conversations[c].turn_count

-----------------------------------------------------------------------------
(* Properties of process_message: failures and stage inputs, continued *)

\* the call log holds a call whose output failed validation
MalformedOutputSeen == \E i \in 1..Len(calls) : "error" \in DOMAIN calls[i]

\* C21: a Response Stage result that lacks a required field fails the whole
\* turn: no reply is kept, no TurnResult is returned, and the affection of every
\* TurnResult is the clamp of the reply's own score, never a substituted default.
C21_MissingFieldFailsTurn ==
    /\ MalformedOutputSeen =>
          /\ pc = "failed"
          /\ result = NoResult
          /\ state.response = <<>>
          /\ trace = <<"chat">>
    /\ state.response # <<>> => ChatResponseFields \subseteq DOMAIN state.response
    /\ result # NoResult =>
          /\ ChatResponseFields \subseteq DOMAIN result.response
          /\ result.updated_affection = Clamp(result.response.affection_score)

\* the reply came without affection_score and the call failed
C21_Witness ==
    /\ pc = "failed"
    /\ MalformedOutputSeen
    /\ state.current_affection = 65
    /\ state.updated_affection = 65

-----------------------------------------------------------------------------
(* Properties of the profile stage, continued *)

\* the heading line itself: '=== Recent Updates ===' and its line end
HeadingLine == SubSeq(RecentUpdatesHeading, 3, Len(RecentUpdatesHeading))

\* C24: whenever the Profile Stage yields a non-empty addition, the addendum
\* update_profile returns starts with the existing addendum and ends with the
\* '=== Recent Updates ===' heading followed by the addition, for every existing
\* addendum, the empty one included.
C24_AdditionUnderHeading ==
    (call # <<>> /\ call.op = "update_profile" /\ ~ret.raised
        /\ Truthy(dynamic_profile(call.completion))) =>
        LET existing == call.character.dynamic_profile
            under_heading == HeadingLine \o dynamic_profile(call.completion)
            from == Len(ret.value) - Len(under_heading) + 1
        IN  /\ IsPrefix(existing, ret.value)
            /\ from >= Len(existing) + 1
            /\ SubSeq(ret.value, from, Len(ret.value)) = under_heading

-----------------------------------------------------------------------------
(* Properties of process_message: what the later stages are sent *)

\* C25: the Memory Stage inside process_message is given, as the exchange to
\* extract facts from, exactly the user message of this call and the reply
\* dialogue the Response Stage just produced: one pair, never an older one.
C25_MemoryGivenNewestPair ==
    LET sent == { i \in 1..Len(calls) : calls[i].request.op = "get_memory" }
    IN  /\ Cardinality(sent) <= 1
        /\ "summarize" \in Range(trace) => Cardinality(sent) = 1
        /\ \A i \in sent :
              /\ calls[i].request.user = state.user_message
              /\ calls[i].request.assistant = state.response.dialogue
              /\ DOMAIN calls[i].request \cap {"history"} = {}

\* memory extraction ran after a reply "d2" on a history of 20 older messages
C25_Witness ==
    /\ pc = "done"
    /\ Len(state.history) = 20
    /\ state.response.dialogue = "d2"
    /\ \E i \in 1..Len(calls) :
          /\ calls[i].request.op = "get_memory"
          /\ calls[i].request.assistant = "d2"
          /\ ~calls[i].raised

\* C26: on the turnCount >= 10 route the Profile Stage is given the last 6
\* messages of the extended history, the persona's trait bundle without the
\* existing addendum, and as quest context the result the Quest Stage produced
\* earlier in this invocation, never an empty one.
C26_ProfileStageInputs ==
    \A i \in 1..Len(calls) :
        calls[i].request.op = "dynamic_profile" =>
            LET sent == calls[i].request
                extended == state.history \o
                    << [role |-> "user", content |-> state.user_message],
                       [role |-> "assistant", content |-> state.response.dialogue] >>
                n == Len(extended)
            IN  /\ state.turn_count >= 10
                /\ Len(sent.history) = 6
                /\ \A j \in 1..6 : sent.history[j] = FormattedTurn(extended[n - 6 + j])
                /\ sent.original_profile = state.character.details
                /\ "dynamic_profile" \notin DOMAIN sent
                /\ "dynamic_profile" \notin DOMAIN sent.original_profile
                /\ sent.quest_info # <<>>
                /\ sent.quest_info = state.updated_quests
                /\ \E k \in 1..(i - 1) :
                      calls[k].request.op = "check_advancement_quest" /\ ~calls[k].raised

\* the Profile Stage ran with an addendum present and a quest just cleared
C26_Witness ==
    /\ pc = "summarize"
    /\ state.character.dynamic_profile = <<"o", "l", "d">>
    /\ \E i \in 1..Len(calls) :
          /\ calls[i].request.op = "dynamic_profile"
          /\ ~calls[i].raised
          /\ calls[i].request.quest_info.regular_quests.quests # <<>>
          /\ calls[i].request.quest_info.regular_quests.quests[1].cleared = 1

\* C27: the affection handed to the milestone check is this turn's updated
\* affection, the Response Stage's score clamped into [0,100]; not the affection
\* the turn started with and never a raw score out of range.
C27_MilestoneCheckAffection ==
    \A i \in 1..Len(calls) :
        calls[i].request.op = "check_advancement_quest" =>
            /\ calls[i].request.affection = Clamp(state.response.affection_score)
            /\ calls[i].request.affection = state.updated_affection
            /\ calls[i].request.affection \in 0..100

\* the reply scored 137 on a turn that started at 50: the check was handed 100
C27_Witness ==
    /\ state.current_affection = 50
    /\ state.response # <<>>
    /\ state.response.affection_score = 137
    /\ \E i \in 1..Len(calls) :
          /\ calls[i].request.op = "check_advancement_quest"
          /\ calls[i].request.affection = 100

-----------------------------------------------------------------------------
(* Properties of the chat endpoint: what a request leaves alone *)

\* C28: affection_change is passed through untouched and never applied
\* arithmetically: the TurnResult carries the reply as the Response Stage gave
\* it, its updated affection is the clamp of the reply's score whatever the
\* change says, and the assistant message a request stores carries exactly the
\* reply's affection_change beside that affection.
C28_AffectionChangePassedThrough ==
    /\ [](result # NoResult =>
            /\ result.response = state.response
            /\ result.updated_affection = Clamp(result.response.affection_score))
    /\ [][(pc = "done" /\ messages' # messages) =>
            LET stored == messages'[Len(messages')]
            IN  /\ stored.role = "assistant"
                /\ stored.content = result.response.dialogue
                /\ stored.affection_change = result.response.affection_change
                /\ conversations'[req.conversation_id].affection_score
                      = Clamp(result.response.affection_score)]_vars

\* the first reply of a new conversation (affection 50) had score -7 and change
\* -12: affection 0 and change -12 were stored
C28_Witness ==
    /\ pc = "idle"
    /\ Get(req, "status", 0) = 200
    /\ messages # <<>>
    /\ messages[Len(messages)].affection_change = 0 - 12
    /\ messages[Len(messages)].conversation_id = 1
    /\ conversations[1].affection_score = 0
    /\ conversations[1].turn_count = 1

\* C29: the relationship stage is read-only: process_message never changes it
\* and no chat request changes a conversation's stored relationship_stage, which
\* after any sequence of chats still is 'stranger' whatever the affection.
C29_RelationshipStageReadOnly ==
    /\ [](\A c \in 1..Len(conversations) :
            conversations[c].relationship_stage = "stranger")
    /\ [](state # <<>> =>
            state.relationship_stage = req.conversation.relationship_stage)
    /\ [][(state # <<>> /\ state' # <<>>) =>
            state'.relationship_stage = state.relationship_stage]_vars

\* a request took a conversation's affection to 100
C29_Witness ==
    /\ pc = "idle"
    /\ Get(req, "status", 0) = 200
    /\ \E c \in 1..Len(conversations) :
          /\ conversations[c].affection_score = 100
          /\ conversations[c].turn_count >= 1
          /\ conversations[c].relationship_stage = "stranger"

(***************************************************************************)
(* Properties of two chat requests in flight at once                       *)
(***************************************************************************)

\* the step is the first handler's commit, after the second handler committed
\* a turn of the same conversation that both loaded at the same turn_count
FirstCommitsOnStale ==
    /\ pc = "done"
    /\ Get(req', "status", 0) = 200
    /\ Get(other, "phase", "") = "committed"
    /\ other.req.conversation_id = req.conversation_id
    /\ other.req.conversation.turn_count = req.conversation.turn_count

\* the step is the second handler's commit, after the first handler committed
\* a turn of the same conversation that both loaded at the same turn_count
OtherCommitsOnStale ==
    /\ Get(other, "phase", "") = "loaded"
    /\ other'.phase = "committed"
    /\ Get(req, "status", 0) = 200
    /\ req.session_id = other.req.session_id
    /\ req.turn_count = other.req.conversation.turn_count + 1

\* after the later of the two commits: the conversation has the loaded history
\* and four more messages, its turn_count is the loaded one plus 1
FourMessagesOneTurn(r, history) ==
    /\ Len(load_history(messages, r.conversation_id)) = Len(history) + 2
    /\ Len(load_history(messages', r.conversation_id)) = Len(history) + 4
    /\ conversations'[r.conversation_id].turn_count = r.conversation.turn_count + 1

\* C22: two requests for the same session that both load before either commits
\* both commit: four messages are appended, turn_count grows by 1, and the
\* stored affection is the later committer's updated affection when that
\* differs from the affection it loaded, otherwise the earlier committer's.
C22_SameSessionLostUpdate ==
    [][/\ FirstCommitsOnStale =>
            /\ FourMessagesOneTurn(req, state.history)
            /\ conversations'[req.conversation_id].affection_score =
                  IF result.updated_affection # req.conversation.affection_score
                  THEN result.updated_affection
                  ELSE other.result.updated_affection
       /\ OtherCommitsOnStale =>
            /\ FourMessagesOneTurn(other.req, other.state.history)
            /\ conversations'[other.req.conversation_id].affection_score =
                  IF other'.result.updated_affection # other.req.conversation.affection_score
                  THEN other'.result.updated_affection
                  ELSE conversations[other.req.conversation_id].affection_score]_vars

\* both handlers committed a turn of conversation 1 loaded at the same
\* turn_count: four messages more, one turn more, affection moved from 42 to 100
C22_Witness ==
    /\ pc = "idle"
    /\ Get(req, "status", 0) = 200
    /\ Get(other, "phase", "") = "committed"
    /\ other.req.conversation_id = 1
    /\ req.session_id = other.req.session_id
    /\ req.turn_count = other.req.conversation.turn_count + 1
    /\ conversations[1].turn_count = req.turn_count
    /\ Len(load_history(messages, 1)) = 2 * req.turn_count + 2
    /\ other.req.conversation.affection_score = 42
    /\ conversations[1].affection_score = 100

\* C22 as stated: after the later commit the stored affection is the later
\* committer's updated affection.
C22_LastCommitterAffection ==
    [][/\ FirstCommitsOnStale =>
            conversations'[req.conversation_id].affection_score = result.updated_affection
       /\ OtherCommitsOnStale =>
            conversations'[other.req.conversation_id].affection_score =
                other'.result.updated_affection]_vars

\* the two requests in flight are for different conversations
DifferentConversations ==
    /\ Get(other, "phase", "") \in {"loaded", "committed"}
    /\ Get(req, "session_id", None) # None
    /\ req.session_id # other.req.session_id

\* C23: requests for different conversations share no mutable state, so as in
\* any run of the two one after the other, no step takes anything away from a
\* character's stored addendum: it stays equal or is extended at its end.
C23_DifferentConversationsSerial ==
    [][DifferentConversations' =>
          \A c \in 1..Len(characters) :
              IsPrefix(characters[c].dynamic_profile, characters'[c].dynamic_profile)]_vars

\* the step is the commit of a request whose turn count was n
Commits(n) ==
    \/ /\ pc = "done"
       /\ Get(req', "status", 0) = 200
       /\ state.turn_count = n
    \/ /\ Get(other, "phase", "") = "loaded"
       /\ other'.phase = "committed"
       /\ other.state.turn_count = n

AddendaUnchanged ==
    /\ Len(characters') = Len(characters)
    /\ \A c \in 1..Len(characters) :
          characters'[c].dynamic_profile = characters[c].dynamic_profile

ClearedUnchanged ==
    /\ Len(quests') = Len(quests)
    /\ \A q \in 1..Len(quests) :
          /\ quests'[q].cleared = quests[q].cleared
          /\ quests'[q].cleared_at = quests[q].cleared_at

\* C30: a successful chat request with turn count below 3 leaves every stored
\* quest's cleared flag and cleared_at and every stored addendum as they were;
\* one with turn count from 3 to 9 leaves every stored addendum as it was.
C30_UnroutedStagesLeaveStore ==
    [][\A n \in 0..(FullProcessFrom - 1) :
          Commits(n) =>
              /\ AddendaUnchanged
              /\ n < SummarizeOnlyBelow => ClearedUnchanged]_vars

\* a request at turn count 2 committed after another request had stored an
\* addendum and cleared both quests, and the store still holds them
C30_Witness ==
    /\ pc = "idle"
    /\ Get(req, "status", 0) = 200
    /\ req.turn_count = SummarizeOnlyBelow
    /\ Get(other, "phase", "") = "committed"
    /\ conversations[1].turn_count = SummarizeOnlyBelow
    /\ characters[1].dynamic_profile = <<"c", "a", "t">>
    /\ \A q \in 1..Len(quests) : quests[q].cleared = 1 /\ quests[q].cleared_at # 0

(***************************************************************************)
(* Termination of one invocation                                           *)
(***************************************************************************)

\* C31: every process_message invocation terminates when each completion call
\* returns or fails: the nodes entered are in strictly increasing graph order
\* (none twice), they are the start of the one path the turn count selects, the
\* end state follows summarize directly unless it failed, and the invocation
\* eventually has returned or failed.
C31_InvocationTerminates ==
    /\ [](\A i, j \in 1..Len(trace) :
            i < j => StageOrder(trace[i]) < StageOrder(trace[j]))
    /\ [](IsPrefix(trace, <<"chat">> \o ExpectedStages(TurnCountOf(state.history))))
    /\ [][(pc = "summarize" /\ pc' # "failed") => pc' = "END"]_vars
    /\ <>(pc \in {"done", "failed"})

\* an invocation on 22 messages returned after entering all four nodes
C31_Witness ==
    /\ pc = "done"
    /\ Len(state.history) = 22
    /\ trace = <<"chat", "check_quests", "update_profile", "summarize">>
    /\ \A i \in 1..Len(calls) : ~calls[i].raised

(***************************************************************************)
(* Properties of the chat endpoint: sessions, failures, ownership          *)
(***************************************************************************)

SessionIds(convs) == { convs[c].session_id : c \in 1..Len(convs) }

\* the request is processed in the stored conversation of the id in its body
ProcessedInExisting(loaded, http_request) ==
    /\ loaded.conversations = conversations
    /\ loaded.req.conversation_id \in 1..Len(conversations)
    /\ conversations[loaded.req.conversation_id].session_id = http_request.session_id
    /\ loaded.req.session_id = http_request.session_id
    /\ loaded.req.conversation = conversations[loaded.req.conversation_id]
    /\ loaded.state.history = load_history(messages, loaded.req.conversation_id)

\* the request is processed in a conversation created for it
ProcessedInNew(loaded, character_id, http_request) ==
    LET new == loaded.conversations[Len(loaded.conversations)]
    IN  /\ loaded.conversations = Append(conversations, new)
        /\ loaded.req.conversation_id = Len(conversations) + 1
        /\ loaded.req.conversation = new
        /\ loaded.req.session_id = new.session_id
        /\ new.session_id \notin SessionIds(conversations) \cup {http_request.session_id}
        /\ new.character_id = character_id
        /\ new.affection_score = 50
        /\ new.relationship_stage = "stranger"
        /\ new.turn_count = 0
        /\ loaded.state.history = <<>>
        /\ loaded.state.turn_count = 0

\* C32: whenever the endpoint takes a request, one whose body session_id is that
\* of a stored conversation is processed in that conversation under the same id,
\* and one with no or an unknown session_id gets a new conversation with a fresh
\* id, affection 50, stage 'stranger', turn_count 0 and empty history; a
\* successful response carries the session id processed and the loaded
\* turn_count plus 1, which is 1 for a new conversation.
C32_SessionLookup ==
    /\ [](pc = "idle" =>
            \A character_id \in 1..Len(characters),
               http_request \in ChatRequests(conversations) :
                LET loaded == load_request(characters, conversations, messages, quests,
                                           character_id, http_request)
                IN  IF http_request.session_id \in SessionIds(conversations)
                    THEN ProcessedInExisting(loaded, http_request)
                    ELSE ProcessedInNew(loaded, character_id, http_request))
    /\ [][(pc = "idle" /\ pc' = "chat") =>
            \E character_id \in 1..Len(characters),
               http_request \in ChatRequests(conversations) :
                LET loaded == load_request(characters, conversations, messages, quests,
                                           character_id, http_request)
                IN  /\ conversations' = loaded.conversations
                    /\ req' = loaded.req
                    /\ state' = loaded.state]_vars
    /\ [][(pc = "done" /\ Get(req', "status", 0) = 200) =>
            /\ req'.session_id = req.session_id
            /\ req'.turn_count = req.conversation.turn_count + 1
            /\ conversations'[req.conversation_id].turn_count = req'.turn_count]_vars

\* a request was answered from a conversation created for it beside a stored
\* one, with turn_count 1
C32_Witness ==
    /\ pc = "idle"
    /\ Get(req, "status", 0) = 200
    /\ req.turn_count = 1
    /\ Len(conversations) = 2
    /\ conversations[1].turn_count >= 1
    /\ req.session_id = conversations[2].session_id
    /\ conversations[2].turn_count = 1
    /\ conversations[2].relationship_stage = "stranger"
    /\ Len(load_history(messages, 2)) = 2

StoreUnchanged ==
    UNCHANGED <<characters, conversations, messages, quests, memories, vector_store>>

\* C33: a chat request in which process_message fails persists nothing of the
\* turn. Taking the request adds at most a conversation row with no turn and no
\* message; from then until the handler has raised the store is not written and
\* still holds the rows and the history the request loaded.
C33_FailedTurnStoresNothing ==
    /\ [][(pc = "idle" /\ pc' = "chat") =>
            /\ UNCHANGED <<characters, messages, quests, memories, vector_store>>
            /\ \/ conversations' = conversations
               \/ /\ conversations' = Append(conversations, req'.conversation)
                  /\ req'.conversation.turn_count = 0
                  /\ req'.conversation.affection_score = DefaultAffection
                  /\ load_history(messages', req'.conversation_id) = <<>>]_vars
    /\ [][(pc \notin {"idle", "done"}) => StoreUnchanged]_vars
    /\ [](pc = "failed" =>
            /\ conversations[req.conversation_id] = req.conversation
            /\ load_history(messages, req.conversation_id) = state.history
            /\ quests = req.quests
            /\ characters[req.character_id] = req.character)

\* process_message failed in its quest check, in the second request of a
\* conversation whose first request was stored
C33_Witness ==
    /\ pc = "failed"
    /\ chats = MaxChats
    /\ trace = <<"chat", "check_quests">>
    /\ req.conversation.turn_count = SummarizeOnlyBelow
    /\ Len(load_history(messages, req.conversation_id)) = 2 * SummarizeOnlyBelow
    /\ conversations[req.conversation_id].affection_score = 100

\* C34: a chat request addressed to a character reads the history of, and
\* appends its messages and its affection update to, only a conversation of that
\* character, whatever session id the client supplied.
C34_OwnConversationOnly ==
    /\ [](state # <<>> =>
            conversations[req.conversation_id].character_id = req.character_id)
    /\ [][\A c \in 1..Len(conversations) :
            (\/ conversations'[c] # conversations[c]
             \/ load_history(messages', c) # load_history(messages, c))
                => conversations[c].character_id = req.character_id]_vars

\* C35: a chat request addressed to a character changes the cleared flag or
\* cleared_at only of that character's quests, whatever the quest checks return.
C35_OwnQuestsOnly ==
    [][\A q \in 1..Len(quests) :
          (\/ quests'[q].cleared # quests[q].cleared
           \/ quests'[q].cleared_at # quests[q].cleared_at)
              => quests[q].character_id = req.character_id]_vars

\* C36: over chat requests handled one at a time a quest's cleared_at is written
\* at most once: it becomes set only in a request that stores cleared = 1 for a
\* quest not cleared before, with that request's time; once set it is never
\* changed or reset; and every stored quest with cleared = 1 has cleared_at set.
C36_ClearedAtWrittenOnce ==
    /\ [](\A q \in 1..Len(quests) :
            quests[q].cleared = 1 => quests[q].cleared_at # 0)
    /\ [][\A q \in 1..Len(quests) :
            /\ quests[q].cleared_at # 0 =>
                  quests'[q].cleared_at = quests[q].cleared_at
            /\ (quests[q].cleared_at = 0 /\ quests'[q].cleared_at # 0) =>
                  /\ pc = "done"
                  /\ quests[q].cleared = 0
                  /\ quests'[q].cleared = 1
                  /\ quests'[q].cleared_at = chats]_vars

\* the first request cleared a quest; the second stored it with cleared = 0
\* again and its cleared_at still is the first request's time
C36_Witness ==
    /\ pc = "idle"
    /\ chats = 2
    /\ Get(req, "status", 0) = 200
    /\ quests[1].cleared = 0
    /\ quests[1].cleared_at = 1
    /\ quests[2].cleared = 1
    /\ quests[2].cleared_at = 1

\* C37: whatever fails while the memories of a turn are stored, the relational
\* store and the vector store hold the same memories: the vector store has an
\* entry for a memory id exactly if the memories table has that row.
C37_MemoryStoresAgree ==
    /\ \A v \in vector_store :
          /\ v.memory_id \in 1..Len(memories)
          /\ memories[v.memory_id].character_id = v.character_id
    /\ \A m \in 1..Len(memories) :
          [character_id |-> memories[m].character_id, memory_id |-> m] \in vector_store

(***************************************************************************)
(* The memory stage inside process_message                                 *)
(***************************************************************************)

MemoryCalls == { i \in 1..Len(calls) : calls[i].request.op = "get_memory" }

\* C38: inside process_message the memory stage never takes its short-circuit
\* for a history of fewer than 2 messages: the history it receives has at least
\* 2 messages, and once the summarize node has been entered exactly one memory
\* completion call has been made, on every route and for an empty caller history.
C38_MemoryShortCircuitUnreachable ==
    /\ \A i \in 1..Len(received) :
          received[i].stage = "summarize" =>
              /\ Len(received[i].history) >= 2
              /\ get_memory(received[i].history, state.character.basics.name,
                            EmptyMemories).requests # <<>>
    /\ Cardinality(MemoryCalls) = IF "summarize" \in Range(trace) THEN 1 ELSE 0

\* an invocation with an empty history returned after one memory call that was
\* given the two messages of the new pair
C38_Witness ==
    /\ pc = "done"
    /\ state.history = <<>>
    /\ trace = <<"chat", "summarize">>
    /\ Cardinality(MemoryCalls) = 1
    /\ received[Len(received)].stage = "summarize"
    /\ Len(received[Len(received)].history) = 2
    /\ \A i \in 1..Len(calls) : ~calls[i].raised

=============================================================================
